---- MODULE Spec2Model ----
(***************************************************************************)
(* Pipe transport of the launcher package (lib/launcher):                  *)
(*   - Launcher.LaunchPipe: pipe creation, platform binding, spawn, exit   *)
(*     watcher (two revisions of the function are in the sources: the one  *)
(*     in launcher_pipe.go formats the arguments first and wires           *)
(*     cmd.ExtraFiles itself; the one in part_000 calls preparePipeConfig  *)
(*     and formats afterwards);                                            *)
(*   - Launcher.preparePipeConfig: the unix and the windows binder;        *)
(*   - PipeWebSocket: Send / Read / Close over two os.File and a           *)
(*     bufio.Reader, messages delimited by a zero byte.                    *)
(***************************************************************************)
EXTENDS Integers, Sequences, FiniteSets, TLC

(* ---------------------------------------------------------------- bounds *)
NumCalls == 2        \* LaunchPipe calls issued on the one Launcher

Callers == 1..NumCalls

(* ------------------------------------------------------------- constants *)
Endpoints == {"chromeReadPipe", "ourWritePipe", "ourReadPipe", "chromeWritePipe"}
ChildSide == {"chromeReadPipe", "chromeWritePipe"}
ParentSide == {"ourWritePipe", "ourReadPipe"}

(* r, w := os.Pipe(): the read end and the write end of one pipe *)
Pair1 == [r |-> "chromeReadPipe", w |-> "ourWritePipe"]
Pair2 == [r |-> "ourReadPipe", w |-> "chromeWritePipe"]

Sources == {"launcher_pipe.go", "part_000"}
Platforms == {"unix", "windows"}

(* an error value is <<message, wrapped error>>; fmt.Errorf("...: %w", err) *)
(* wraps err                                                                *)
Wrap(msg, err) == <<msg, err>>
NoErr == <<"nil", <<>>>>
Pending == <<"pending", <<>>>>
ErrAlreadyLaunched == <<"already launched", <<>>>>
ErrGetBin == <<"getBin", <<>>>>
ErrOsPipe1 == <<"os.Pipe (first)", <<>>>>
ErrOsPipe2 == <<"os.Pipe (second)", <<>>>>
ErrSetHandle == <<"SetHandleInformation", <<>>>>
ErrWritePipe == Wrap("failed to create write pipe", ErrOsPipe1)
ErrReadPipe == Wrap("failed to create read pipe", ErrOsPipe2)
ErrReadHandle == Wrap("failed to make read handle inheritable", ErrSetHandle)
ErrWriteHandle == Wrap("failed to make write handle inheritable", ErrSetHandle)
ErrStart == <<"cmd.Start", <<>>>>

(* a flag is <<name, values>> *)
RemoteDebuggingPipe == <<"remote-debugging-pipe", <<>>>>
RemoteDebuggingIoPipes(r, w) == <<"remote-debugging-io-pipes", <<r, w>>>>

NoArgs == {<<"<unformatted>", <<>>>>}

VARIABLES
    src,          \* which revision of LaunchPipe is compiled in
    platform,     \* build target: selects the preparePipeConfig variant
    isLaunched,   \* Launcher.isLaunched, tested and set by hasLaunched
    flags,        \* Launcher.Flags
    pid,          \* Launcher.pid (0 = never recorded)
    exitCloses,   \* number of close(l.exit) executed (a second one panics)
    ctxCancels,   \* number of deferred l.ctxCancel() run
    pc,           \* position of each LaunchPipe call
    fd,           \* parent's copy of each endpoint, per call: none/open/closed
    args,         \* args local of each call
    configureCmd, \* closure returned by preparePipeConfig, per call (<<>> = nil)
    bindErr,      \* err returned by preparePipeConfig, per call
    cmd,          \* exec.Cmd of each call: what the child is to inherit
    proc,         \* child process of each call
    watcher,      \* the goroutine of each call: none / waiting / done
    pipeWS,       \* in and out of the PipeWebSocket each call built
    ret           \* error returned by each call

lvars == <<src, platform, isLaunched, flags, pid, exitCloses, ctxCancels, pc,
           fd, args, configureCmd, bindErr, cmd, proc, watcher, pipeWS, ret>>

VARIABLES
    tin,     \* state of the os.File t.in: open / closed
    tout,    \* state of the os.File t.out
    pipe,    \* bytes written to t's inbound pipe and not yet read from it
    rbuf,    \* t.reader: bytes buffered and not yet handed out
    racc,    \* fragments ReadBytes has set aside in the Read in progress
    rpc,     \* idle / reading: a Read call is in progress on t
    last,    \* outcome of the last call completed on t
    closed,  \* Close has run on t (explicitly, or from a failed Send/Read)
    rel,     \* times the descriptor of t.in / t.out was released to the OS
    rsince,  \* the Read in progress was called after Close had run
    sent,    \* payloads of the Sends on t that returned nil, in order
    recvd,   \* payloads returned by the successful Reads on t, in order
    stream,  \* every byte ever written to t's inbound pipe, in order
    raw,     \* bytes were written to t's inbound pipe other than by Send
    rfail,   \* a Read on t has returned an error
    nSends,  \* Send calls made
    nRaw     \* bytes written directly

tvars == <<tin, tout, pipe, rbuf, racc, rpc, last, closed, rel, rsince, sent, recvd,
           stream, raw, rfail, nSends, nRaw>>

vars == <<lvars, tvars>>

NoCmd == [ExtraFiles |-> <<>>, AdditionalInheritedHandles |-> <<>>]
NoWS == [in |-> "none", out |-> "none"]
NoProc == [state |-> "none", args |-> NoArgs, inherited |-> NoCmd, pid |-> 0]

(* NewPipeMode: New() then Delete(port), Delete(leakless), Set(pipe). *)
NewPipeMode == {RemoteDebuggingPipe}

(* New(): nothing launched, no pid, l.exit open; no call made yet *)
NewLauncher ==
    /\ isLaunched = FALSE
    /\ flags = NewPipeMode
    /\ pid = 0
    /\ exitCloses = 0
    /\ ctxCancels = 0
    /\ pc = [c \in Callers |-> "idle"]
    /\ fd = [c \in Callers |-> [e \in Endpoints |-> "none"]]
    /\ args = [c \in Callers |-> NoArgs]
    /\ configureCmd = [c \in Callers |-> <<>>]
    /\ bindErr = [c \in Callers |-> NoErr]
    /\ cmd = [c \in Callers |-> NoCmd]
    /\ proc = [c \in Callers |-> NoProc]
    /\ watcher = [c \in Callers |-> "none"]
    /\ pipeWS = [c \in Callers |-> NoWS]
    /\ ret = [c \in Callers |-> Pending]

(* ------------------------------------------------------------- helpers *)

(* Launcher.hasLaunched: atomic test-and-set of the launched flag; the    *)
(* value returned is the flag before the call.                            *)
hasLaunched == isLaunched

(* Launcher.FormatArgs: the argument list of the flags set at this point. *)
FormatArgs == flags

(* os.File.Close on the parent's copies in S: an open one becomes closed. *)
CloseAll(f, S) == [e \in Endpoints |-> IF e \in S /\ f[e] = "open" THEN "closed" ELSE f[e]]

OpenAll(f, S) == [e \in Endpoints |-> IF e \in S THEN "open" ELSE f[e]]

(* return err, with the deferred l.ctxCancel() *)
Return(c, e) ==
    /\ ret' = [ret EXCEPT ![c] = e]
    /\ pc' = [pc EXCEPT ![c] = "done"]
    /\ ctxCancels' = ctxCancels + 1

Goto(c, l) ==
    /\ pc' = [pc EXCEPT ![c] = l]
    /\ UNCHANGED <<ret, ctxCancels>>

(* ------------------------------------------------------------ LaunchPipe *)

(* Mutant: the result of hasLaunched is ignored. *)
LP_Entry_NoGuard(c) ==
    /\ pc[c] = "idle"
    /\ isLaunched' = TRUE
    /\ Goto(c, "getBin")
    /\ UNCHANGED tvars
    /\ UNCHANGED bindErr
    /\ UNCHANGED <<src, platform, flags, pid, exitCloses, fd, args,
                   configureCmd, cmd, proc, watcher, pipeWS>>

(* if l.hasLaunched() { return nil, ErrAlreadyLaunched }: returns before  *)
(* the defer is registered, so no ctxCancel on this path.                 *)
LP_Entry(c) ==
    /\ pc[c] = "idle"
    /\ isLaunched' = TRUE
    /\ IF hasLaunched
         THEN /\ ret' = [ret EXCEPT ![c] = ErrAlreadyLaunched]
              /\ pc' = [pc EXCEPT ![c] = "done"]
              /\ UNCHANGED ctxCancels
         ELSE Goto(c, "getBin")
    /\ UNCHANGED tvars
    /\ UNCHANGED bindErr
    /\ UNCHANGED <<src, platform, flags, pid, exitCloses, fd, args,
                   configureCmd, cmd, proc, watcher, pipeWS>>

(* Mutant: a failed binary lookup gives the launch back. *)
LP_GetBin_Reset(c) ==
    /\ pc[c] = "getBin"
    /\ \E ok \in BOOLEAN :
         IF ok
           THEN UNCHANGED isLaunched /\ Goto(c, IF src = "launcher_pipe.go" THEN "formatFirst" ELSE "pipe1")
           ELSE Return(c, ErrGetBin) /\ isLaunched' = FALSE
    /\ UNCHANGED tvars
    /\ UNCHANGED bindErr
    /\ UNCHANGED <<src, platform, flags, pid, exitCloses, fd, args,
                   configureCmd, cmd, proc, watcher, pipeWS>>

(* bin, err := l.getBin(); l.setupUserPreferences() *)
LP_GetBin(c) ==
    /\ pc[c] = "getBin"
    /\ \E ok \in BOOLEAN :
         IF ok
           THEN Goto(c, IF src = "launcher_pipe.go" THEN "formatFirst" ELSE "pipe1")
           ELSE Return(c, ErrGetBin)
    /\ UNCHANGED tvars
    /\ UNCHANGED bindErr
    /\ UNCHANGED <<src, platform, isLaunched, flags, pid, exitCloses, fd, args,
                   configureCmd, cmd, proc, watcher, pipeWS>>

(* launcher_pipe.go: args := l.FormatArgs() before any pipe exists *)
LP_FormatFirst(c) ==
    /\ pc[c] = "formatFirst"
    /\ args' = [args EXCEPT ![c] = FormatArgs]
    /\ Goto(c, "pipe1")
    /\ UNCHANGED tvars
    /\ UNCHANGED bindErr
    /\ UNCHANGED <<src, platform, isLaunched, flags, pid, exitCloses, fd,
                   configureCmd, cmd, proc, watcher, pipeWS>>

(* chromeReadPipe, ourWritePipe, err := os.Pipe() *)
LP_Pipe1(c) ==
    /\ pc[c] = "pipe1"
    /\ \E ok \in BOOLEAN :
         IF ok
           THEN /\ fd' = [fd EXCEPT ![c] = OpenAll(@, {"chromeReadPipe", "ourWritePipe"})]
                /\ Goto(c, "pipe2")
           ELSE /\ Return(c, ErrWritePipe)
                /\ UNCHANGED fd
    /\ UNCHANGED tvars
    /\ UNCHANGED bindErr
    /\ UNCHANGED <<src, platform, isLaunched, flags, pid, exitCloses, args,
                   configureCmd, cmd, proc, watcher, pipeWS>>

(* Mutant: pair 1 is not closed when pair 2 cannot be created. *)
LP_Pipe2_Leak(c) ==
    /\ pc[c] = "pipe2"
    /\ \E ok \in BOOLEAN :
         IF ok
           THEN /\ fd' = [fd EXCEPT ![c] = OpenAll(@, {"ourReadPipe", "chromeWritePipe"})]
                /\ Goto(c, IF src = "launcher_pipe.go" THEN "extraFiles" ELSE "bind")
           ELSE /\ fd' = [fd EXCEPT ![c] = CloseAll(@, {"chromeReadPipe"})]
                /\ Return(c, ErrReadPipe)
    /\ UNCHANGED tvars
    /\ UNCHANGED bindErr
    /\ UNCHANGED <<src, platform, isLaunched, flags, pid, exitCloses, args,
                   configureCmd, cmd, proc, watcher, pipeWS>>

(* ourReadPipe, chromeWritePipe, err := os.Pipe(); on failure pair 1 is   *)
(* closed and the wrapped error returned.                                 *)
LP_Pipe2(c) ==
    /\ pc[c] = "pipe2"
    /\ \E ok \in BOOLEAN :
         IF ok
           THEN /\ fd' = [fd EXCEPT ![c] = OpenAll(@, {"ourReadPipe", "chromeWritePipe"})]
                /\ Goto(c, IF src = "launcher_pipe.go" THEN "extraFiles" ELSE "bind")
           ELSE /\ fd' = [fd EXCEPT ![c] = CloseAll(@, {"chromeReadPipe", "ourWritePipe"})]
                /\ Return(c, ErrReadPipe)
    /\ UNCHANGED tvars
    /\ UNCHANGED bindErr
    /\ UNCHANGED <<src, platform, isLaunched, flags, pid, exitCloses, args,
                   configureCmd, cmd, proc, watcher, pipeWS>>

(* ------------------------------------------------------ preparePipeConfig *)

(* Mutant: the two files are listed in the other order. *)
preparePipeConfigUnix_Swapped(readPipe, writePipe) ==
    [err |-> NoErr, set |-> {},
     configure |-> <<[field |-> "ExtraFiles", files |-> <<writePipe, readPipe>>]>>]

(* unix: nothing to prepare; the closure sets cmd.ExtraFiles. *)
preparePipeConfigUnix(readPipe, writePipe) ==
    [err |-> NoErr, set |-> {},
     configure |-> <<[field |-> "ExtraFiles", files |-> <<readPipe, writePipe>>]>>]

(* windows: both handles are made inheritable (okRead, okWrite: outcome   *)
(* of the two setHandleInheritable calls), the flag is set, the closure    *)
(* sets SysProcAttr.AdditionalInheritedHandles.                            *)
preparePipeConfigWindows(readPipe, writePipe, okRead, okWrite) ==
    IF ~okRead THEN [err |-> ErrReadHandle, set |-> {}, configure |-> <<>>]
    ELSE IF ~okWrite THEN [err |-> ErrWriteHandle, set |-> {}, configure |-> <<>>]
    ELSE [err |-> NoErr, set |-> {RemoteDebuggingIoPipes(readPipe, writePipe)},
          configure |-> <<[field |-> "AdditionalInheritedHandles",
                           files |-> <<readPipe, writePipe>>]>>]

preparePipeConfig(readPipe, writePipe, okRead, okWrite) ==
    IF platform = "windows"
      THEN preparePipeConfigWindows(readPipe, writePipe, okRead, okWrite)
      ELSE preparePipeConfigUnix(readPipe, writePipe)

(* Mutant: the binder closes the two endpoints it was given when it fails. *)
LP_Bind_Closes(c) ==
    /\ pc[c] = "bind"
    /\ \E okRead, okWrite \in BOOLEAN :
         LET r == preparePipeConfig("chromeReadPipe", "chromeWritePipe", okRead, okWrite) IN
           /\ flags' = flags \cup r.set
           /\ configureCmd' = [configureCmd EXCEPT ![c] = r.configure]
           /\ bindErr' = [bindErr EXCEPT ![c] = r.err]
           /\ fd' = [fd EXCEPT ![c] = IF r.err = NoErr THEN @ ELSE CloseAll(@, ChildSide)]
    /\ Goto(c, "bindCheck")
    /\ UNCHANGED tvars
    /\ UNCHANGED <<src, platform, isLaunched, pid, exitCloses, args,
                   cmd, proc, watcher, pipeWS>>

(* part_000: configureCmd, err := l.preparePipeConfig(chromeReadPipe,     *)
(* chromeWritePipe): the binder may set a flag; it closes nothing.        *)
LP_Bind(c) ==
    /\ pc[c] = "bind"
    /\ \E okRead, okWrite \in BOOLEAN :
         LET r == preparePipeConfig("chromeReadPipe", "chromeWritePipe", okRead, okWrite) IN
           /\ flags' = flags \cup r.set
           /\ configureCmd' = [configureCmd EXCEPT ![c] = r.configure]
           /\ bindErr' = [bindErr EXCEPT ![c] = r.err]
    /\ Goto(c, "bindCheck")
    /\ UNCHANGED tvars
    /\ UNCHANGED <<src, platform, isLaunched, pid, exitCloses, fd, args,
                   cmd, proc, watcher, pipeWS>>

(* part_000: if err != nil { close the four endpoints; return nil, err }  *)
LP_BindCheck(c) ==
    /\ pc[c] = "bindCheck"
    /\ IF bindErr[c] = NoErr
         THEN /\ Goto(c, "format")
              /\ UNCHANGED fd
         ELSE /\ fd' = [fd EXCEPT ![c] = CloseAll(@, Endpoints)]
              /\ Return(c, bindErr[c])
    /\ UNCHANGED tvars
    /\ UNCHANGED <<src, platform, isLaunched, flags, pid, exitCloses, args,
                   configureCmd, bindErr, cmd, proc, watcher, pipeWS>>

(* part_000: args := l.FormatArgs(); cmd := exec.Command(bin, args...)    *)
LP_Format(c) ==
    /\ pc[c] = "format"
    /\ args' = [args EXCEPT ![c] = FormatArgs]
    /\ Goto(c, "setupCmd")
    /\ UNCHANGED tvars
    /\ UNCHANGED bindErr
    /\ UNCHANGED <<src, platform, isLaunched, flags, pid, exitCloses, fd,
                   configureCmd, cmd, proc, watcher, pipeWS>>

(* part_000: l.setupCmd(cmd); configureCmd(cmd) *)
LP_SetupCmd(c) ==
    /\ pc[c] = "setupCmd"
    /\ cmd' = [cmd EXCEPT ![c][configureCmd[c][1].field] = configureCmd[c][1].files]
    /\ Goto(c, "start")
    /\ UNCHANGED tvars
    /\ UNCHANGED bindErr
    /\ UNCHANGED <<src, platform, isLaunched, flags, pid, exitCloses, fd, args,
                   configureCmd, proc, watcher, pipeWS>>

(* launcher_pipe.go: cmd.ExtraFiles = []*os.File{chromeReadPipe,          *)
(* chromeWritePipe}; l.setupCmd(cmd)                                      *)
LP_ExtraFiles(c) ==
    /\ pc[c] = "extraFiles"
    /\ cmd' = [cmd EXCEPT ![c].ExtraFiles = <<"chromeReadPipe", "chromeWritePipe">>]
    /\ Goto(c, "start")
    /\ UNCHANGED tvars
    /\ UNCHANGED bindErr
    /\ UNCHANGED <<src, platform, isLaunched, flags, pid, exitCloses, fd, args,
                   configureCmd, proc, watcher, pipeWS>>

(* Mutant: the read end of pair 2 is left open when the start fails. *)
LP_Start_Leak(c) ==
    /\ pc[c] = "start"
    /\ \E ok \in BOOLEAN :
         IF ok
           THEN /\ proc' = [proc EXCEPT ![c] = [state |-> "running", args |-> args[c],
                                                inherited |-> cmd[c], pid |-> 100 + c]]
                /\ Goto(c, "started")
                /\ UNCHANGED fd
           ELSE /\ fd' = [fd EXCEPT ![c] = CloseAll(@, Endpoints \ {"ourReadPipe"})]
                /\ Return(c, ErrStart)
                /\ UNCHANGED proc
    /\ UNCHANGED tvars
    /\ UNCHANGED bindErr
    /\ UNCHANGED <<src, platform, isLaunched, flags, pid, exitCloses, args,
                   configureCmd, cmd, watcher, pipeWS>>

(* Mutant: the goroutine is started although the start failed. *)
LP_Start_Watch(c) ==
    /\ pc[c] = "start"
    /\ \E ok \in BOOLEAN :
         IF ok
           THEN /\ proc' = [proc EXCEPT ![c] = [state |-> "running", args |-> args[c],
                                                inherited |-> cmd[c], pid |-> 100 + c]]
                /\ Goto(c, "started")
                /\ UNCHANGED <<fd, watcher>>
           ELSE /\ fd' = [fd EXCEPT ![c] = CloseAll(@, Endpoints)]
                /\ Return(c, ErrStart)
                /\ watcher' = [watcher EXCEPT ![c] = "waiting"]
                /\ UNCHANGED proc
    /\ UNCHANGED tvars
    /\ UNCHANGED bindErr
    /\ UNCHANGED <<src, platform, isLaunched, flags, pid, exitCloses, args,
                   configureCmd, cmd, pipeWS>>

(* err = cmd.Start(); on failure the four endpoints are closed. *)
LP_Start(c) ==
    /\ pc[c] = "start"
    /\ \E ok \in BOOLEAN :
         IF ok
           THEN /\ proc' = [proc EXCEPT ![c] = [state |-> "running", args |-> args[c],
                                                inherited |-> cmd[c], pid |-> 100 + c]]
                /\ Goto(c, "started")
                /\ UNCHANGED fd
           ELSE /\ fd' = [fd EXCEPT ![c] = CloseAll(@, Endpoints)]
                /\ Return(c, ErrStart)
                /\ UNCHANGED proc
    /\ UNCHANGED tvars
    /\ UNCHANGED bindErr
    /\ UNCHANGED <<src, platform, isLaunched, flags, pid, exitCloses, args,
                   configureCmd, cmd, watcher, pipeWS>>

(* Mutant: the parent keeps its copy of the child's write end. *)
LP_Started_KeepWrite(c) ==
    /\ pc[c] = "started"
    /\ fd' = [fd EXCEPT ![c] = CloseAll(@, {"chromeReadPipe"})]
    /\ pid' = proc[c].pid
    /\ Goto(c, "goWatcher")
    /\ UNCHANGED tvars
    /\ UNCHANGED bindErr
    /\ UNCHANGED <<src, platform, isLaunched, flags, exitCloses, args,
                   configureCmd, cmd, proc, watcher, pipeWS>>

(* chromeReadPipe.Close(); chromeWritePipe.Close(); l.pid = cmd.Process.Pid *)
LP_Started(c) ==
    /\ pc[c] = "started"
    /\ fd' = [fd EXCEPT ![c] = CloseAll(@, ChildSide)]
    /\ pid' = proc[c].pid
    /\ Goto(c, "goWatcher")
    /\ UNCHANGED tvars
    /\ UNCHANGED bindErr
    /\ UNCHANGED <<src, platform, isLaunched, flags, exitCloses, args,
                   configureCmd, cmd, proc, watcher, pipeWS>>

(* go func() { _ = cmd.Wait(); close(l.exit) }() *)
LP_GoWatcher(c) ==
    /\ pc[c] = "goWatcher"
    /\ watcher' = [watcher EXCEPT ![c] = "waiting"]
    /\ Goto(c, "newWS")
    /\ UNCHANGED tvars
    /\ UNCHANGED bindErr
    /\ UNCHANGED <<src, platform, isLaunched, flags, pid, exitCloses, fd, args,
                   configureCmd, cmd, proc, pipeWS>>

(* pipeWS := NewPipeWebSocket(ourReadPipe, ourWritePipe); client := ...;  *)
(* return client, nil                                                     *)
LP_Return(c) ==
    /\ pc[c] = "newWS"
    /\ pipeWS' = [pipeWS EXCEPT ![c] = [in |-> "ourReadPipe", out |-> "ourWritePipe"]]
    /\ Return(c, NoErr)
    /\ UNCHANGED tvars
    /\ UNCHANGED bindErr
    /\ UNCHANGED <<src, platform, isLaunched, flags, pid, exitCloses, fd, args,
                   configureCmd, cmd, proc, watcher>>

(* Mutant: the goroutine fires the signal without waiting for the child. *)
Watcher_NoWait(c) ==
    /\ watcher[c] = "waiting"
    /\ watcher' = [watcher EXCEPT ![c] = "done"]
    /\ exitCloses' = exitCloses + 1
    /\ UNCHANGED tvars
    /\ UNCHANGED bindErr
    /\ UNCHANGED <<src, platform, isLaunched, flags, pid, ctxCancels, pc, fd, args,
                   configureCmd, cmd, proc, pipeWS, ret>>

(* the goroutine: cmd.Wait() returns once the child has exited, then      *)
(* close(l.exit)                                                          *)
Watcher(c) ==
    /\ watcher[c] = "waiting"
    /\ proc[c].state = "exited"
    /\ watcher' = [watcher EXCEPT ![c] = "done"]
    /\ exitCloses' = exitCloses + 1
    /\ UNCHANGED tvars
    /\ UNCHANGED bindErr
    /\ UNCHANGED <<src, platform, isLaunched, flags, pid, ctxCancels, pc, fd, args,
                   configureCmd, cmd, proc, pipeWS, ret>>

(* the child process terminates (its own decision, or killed); the OS    *)
(* closes the descriptors it held, which are the peer's two files        *)
ProcExit(c) ==
    /\ proc[c].state = "running"
    /\ proc' = [proc EXCEPT ![c].state = "exited"]
    /\ tin' = [tin EXCEPT !["q"] = "closed"]
    /\ tout' = [tout EXCEPT !["q"] = "closed"]
    /\ rel' = [rel EXCEPT !["q"] = [in |-> @.in + (IF tin["q"] = "open" THEN 1 ELSE 0),
                                    out |-> @.out + (IF tout["q"] = "open" THEN 1 ELSE 0)]]
    /\ UNCHANGED <<pipe, rbuf, racc, rpc, last, closed, rsince, sent, recvd, stream,
                   raw, rfail, nSends, nRaw>>
    /\ UNCHANGED bindErr
    /\ UNCHANGED <<src, platform, isLaunched, flags, pid, exitCloses, ctxCancels, pc,
                   fd, args, configureCmd, cmd, watcher, pipeWS, ret>>

LNext ==
    \E c \in Callers :
        \/ LP_Entry(c)
        \/ LP_GetBin(c)
        \/ LP_FormatFirst(c)
        \/ LP_Pipe1(c)
        \/ LP_Pipe2(c)
        \/ LP_Bind(c)
        \/ LP_BindCheck(c)
        \/ LP_Format(c)
        \/ LP_SetupCmd(c)
        \/ LP_ExtraFiles(c)
        \/ LP_Start(c)
        \/ LP_Started(c)
        \/ LP_GoWatcher(c)
        \/ LP_Return(c)
        \/ Watcher(c)
        \/ ProcExit(c)

(* ======================================================== PipeWebSocket *)

(* Two PipeWebSocket values wired back to back: what p sends q reads, and *)
(* the other way round. pipe[t] is the OS pipe t.in reads from; its write *)
(* end is Peer(t).out.                                                    *)
Transports == {"p", "q"}
Peer(t) == IF t = "p" THEN "q" ELSE "p"

Delim == 0
(* bytes a direct write may put on a pipe: the delimiter and another one *)
Byte == {0, 1}

MaxWrites == 2    \* writes to the pipes: Send calls and bytes written directly
ReaderSize == 2   \* capacity of the bufio.Reader's buffer (bufio's default, scaled)

(* payloads handed to Send: the empty one, one whose frame does not fit   *)
(* the reader's buffer, and one with the delimiter inside                 *)
Payloads == {<<>>, <<1, 2>>, <<2, 0, 1>>}

(* I/O errors: os.PathError{Op, Err} as <<op, <<cause>>>>, io.EOF bare *)
ErrWriteClosed == <<"write", <<"file already closed">>>>
ErrWriteEPIPE == <<"write", <<"broken pipe">>>>
ErrReadClosed == <<"read", <<"file already closed">>>>
ErrClosed == "file already closed"
ErrIO == "input/output error"
(* the os.PathError of a Close; the read end of a pipe is named |0, the   *)
(* write end |1                                                           *)
ErrClose(name, cause) == <<"close " \o name, <<cause>>>>
EOF == <<"EOF", <<>>>>

(* err1, err2: what p.in.Close() and p.out.Close() returned, for a Close *)
NoCall == [op |-> "none", err |-> NoErr, data |-> <<>>, afterClose |-> FALSE,
           err1 |-> NoErr, err2 |-> NoErr]

(* NewPipeWebSocket(in, out): both files open, reader empty *)
NewPipeWebSocket ==
    /\ tin = [t \in Transports |-> "open"]
    /\ tout = [t \in Transports |-> "open"]
    /\ rbuf = [t \in Transports |-> <<>>]
    /\ racc = [t \in Transports |-> <<>>]
    /\ rpc = [t \in Transports |-> "idle"]

TInit ==
    /\ NewPipeWebSocket
    /\ pipe = [t \in Transports |-> <<>>]
    /\ last = [t \in Transports |-> NoCall]
    /\ closed = [t \in Transports |-> FALSE]
    /\ rel = [t \in Transports |-> [in |-> 0, out |-> 0]]
    /\ rsince = [t \in Transports |-> FALSE]
    /\ sent = [t \in Transports |-> <<>>]
    /\ recvd = [t \in Transports |-> <<>>]
    /\ stream = [t \in Transports |-> <<>>]
    /\ raw = [t \in Transports |-> FALSE]
    /\ rfail = [t \in Transports |-> FALSE]
    /\ nSends = 0
    /\ nRaw = 0

(* a file of the launcher that LaunchPipe has left open *)
HeldByLauncher(e) == \E c \in Callers : fd[c][e] = "open"

(* nobody holds the read end of the pipe t.out writes to: the peer's in   *)
(* is closed, and for the transport LaunchPipe makes (p) so is the        *)
(* launcher's own chromeReadPipe                                          *)
ReaderGone(t) ==
    /\ tin[Peer(t)] = "closed"
    /\ t = "p" => ~HeldByLauncher(Pair1.r)

(* nobody holds the write end of the pipe t.in reads from: the peer's out *)
(* is closed, and for p so is the launcher's own chromeWritePipe          *)
WriterGone(t) ==
    /\ tout[Peer(t)] = "closed"
    /\ t = "p" => ~HeldByLauncher(Pair2.w)

(* p.out.Write(b): the error of the write, NoErr when the bytes went in *)
WriteErr(t) ==
    IF tout[t] = "closed" THEN ErrWriteClosed
    ELSE IF ReaderGone(t) THEN ErrWriteEPIPE
    ELSE NoErr

(* what close(2) may answer (TRUE: success); it is only called for an    *)
(* open file                                                              *)
OsClose(st) == IF st = "open" THEN BOOLEAN ELSE {TRUE}

(* os.File.Close on a file in state st: a closed file answers "already  *)
(* closed" and nothing is released; an open one is closed whatever the   *)
(* OS answers (ok: the close(2) succeeded), and its error is handed on.  *)
FileClose(st, name, ok) ==
    IF st = "closed" THEN ErrClose(name, ErrClosed)
    ELSE IF ok THEN NoErr
    ELSE ErrClose(name, ErrIO)

(* what PipeWebSocket.Close returns: err1 if not nil, else err2 *)
CloseErr(err1, err2) == IF err1 # NoErr THEN err1 ELSE err2

(* Mutant: a descriptor is released by every Close, open or not. *)
DoClose_Again(t) ==
    /\ tin' = [tin EXCEPT ![t] = "closed"]
    /\ tout' = [tout EXCEPT ![t] = "closed"]
    /\ closed' = [closed EXCEPT ![t] = TRUE]
    /\ rel' = [rel EXCEPT ![t] = [in |-> @.in + 1, out |-> @.out + 1]]

(* the effect of p.in.Close(); p.out.Close() on the two files: both are   *)
(* closed, and a descriptor is released when its file was open            *)
DoClose(t) ==
    /\ tin' = [tin EXCEPT ![t] = "closed"]
    /\ tout' = [tout EXCEPT ![t] = "closed"]
    /\ closed' = [closed EXCEPT ![t] = TRUE]
    /\ rel' = [rel EXCEPT ![t] = [in |-> @.in + (IF tin[t] = "open" THEN 1 ELSE 0),
                                  out |-> @.out + (IF tout[t] = "open" THEN 1 ELSE 0)]]

(* Mutant: the delimiter is not appended. *)
Send_NoDelim(t, data) ==
    /\ nSends + nRaw < MaxWrites
    /\ nSends' = nSends + 1
    /\ LET err == WriteErr(t) IN
         /\ last' = [last EXCEPT ![t] = [op |-> "Send", err |-> err, data |-> <<>>,
                                         afterClose |-> closed[t],
                                         err1 |-> NoErr, err2 |-> NoErr]]
         /\ IF err # NoErr
              THEN /\ DoClose(t)
                   /\ UNCHANGED <<pipe, stream, sent>>
              ELSE /\ pipe' = [pipe EXCEPT ![Peer(t)] = @ \o data]
                   /\ stream' = [stream EXCEPT ![Peer(t)] = @ \o data]
                   /\ sent' = [sent EXCEPT ![t] = Append(@, data)]
                   /\ UNCHANGED <<rel, tin, tout, closed>>
    /\ UNCHANGED <<rbuf, racc, rpc, rsince, recvd, raw, rfail, nRaw>>
    /\ UNCHANGED lvars

(* Mutant: a failed write leaves the transport open. *)
Send_NoClose(t, data) ==
    /\ nSends + nRaw < MaxWrites
    /\ nSends' = nSends + 1
    /\ LET err == WriteErr(t) IN
         /\ last' = [last EXCEPT ![t] = [op |-> "Send", err |-> err, data |-> <<>>,
                                         afterClose |-> closed[t],
                                         err1 |-> NoErr, err2 |-> NoErr]]
         /\ IF err # NoErr
              THEN UNCHANGED <<pipe, stream, sent>>
              ELSE /\ pipe' = [pipe EXCEPT ![Peer(t)] = @ \o Append(data, Delim)]
                   /\ stream' = [stream EXCEPT ![Peer(t)] = @ \o Append(data, Delim)]
                   /\ sent' = [sent EXCEPT ![t] = Append(@, data)]
         /\ UNCHANGED <<rel, tin, tout, closed>>
    /\ UNCHANGED <<rbuf, racc, rpc, rsince, recvd, raw, rfail, nRaw>>
    /\ UNCHANGED lvars

(* Mutant: the zero bytes of the payload are dropped before the write. *)
Send_StripZero(t, data) ==
    /\ nSends + nRaw < MaxWrites
    /\ nSends' = nSends + 1
    /\ LET err == WriteErr(t) IN
         /\ last' = [last EXCEPT ![t] = [op |-> "Send", err |-> err, data |-> <<>>,
                                         afterClose |-> closed[t],
                                         err1 |-> NoErr, err2 |-> NoErr]]
         /\ IF err # NoErr
              THEN /\ DoClose(t)
                   /\ UNCHANGED <<pipe, stream, sent>>
              ELSE /\ pipe' = [pipe EXCEPT ![Peer(t)] = @ \o Append(SelectSeq(data, LAMBDA b : b # Delim), Delim)]
                   /\ stream' = [stream EXCEPT ![Peer(t)] = @ \o Append(SelectSeq(data, LAMBDA b : b # Delim), Delim)]
                   /\ sent' = [sent EXCEPT ![t] = Append(@, data)]
                   /\ UNCHANGED <<rel, tin, tout, closed>>
    /\ UNCHANGED <<rbuf, racc, rpc, rsince, recvd, raw, rfail, nRaw>>
    /\ UNCHANGED lvars

(* Mutant: a Send that succeeds empties the reader's buffer. *)
Send_SharedBuffer(t, data) ==
    /\ nSends + nRaw < MaxWrites
    /\ nSends' = nSends + 1
    /\ LET err == WriteErr(t) IN
         /\ last' = [last EXCEPT ![t] = [op |-> "Send", err |-> err, data |-> <<>>,
                                         afterClose |-> closed[t],
                                         err1 |-> NoErr, err2 |-> NoErr]]
         /\ IF err # NoErr
              THEN /\ DoClose(t)
                   /\ UNCHANGED rbuf
                   /\ UNCHANGED <<pipe, stream, sent>>
              ELSE /\ pipe' = [pipe EXCEPT ![Peer(t)] = @ \o Append(data, Delim)]
                   /\ stream' = [stream EXCEPT ![Peer(t)] = @ \o Append(data, Delim)]
                   /\ sent' = [sent EXCEPT ![t] = Append(@, data)]
                   /\ rbuf' = [rbuf EXCEPT ![t] = <<>>]
                   /\ UNCHANGED <<rel, tin, tout, closed>>
    /\ UNCHANGED <<racc, rpc, rsince, recvd, raw, rfail, nRaw>>
    /\ UNCHANGED lvars

(* PipeWebSocket.Send: one Write of data followed by the zero byte; on an *)
(* error the transport closes itself and the write's error is returned.   *)
Send(t, data) ==
    /\ nSends + nRaw < MaxWrites
    /\ nSends' = nSends + 1
    /\ LET err == WriteErr(t) IN
         /\ last' = [last EXCEPT ![t] = [op |-> "Send", err |-> err, data |-> <<>>,
                                         afterClose |-> closed[t],
                                         err1 |-> NoErr, err2 |-> NoErr]]
         /\ IF err # NoErr
              THEN /\ DoClose(t)
                   /\ UNCHANGED <<pipe, stream, sent>>
              ELSE /\ pipe' = [pipe EXCEPT ![Peer(t)] = @ \o Append(data, Delim)]
                   /\ stream' = [stream EXCEPT ![Peer(t)] = @ \o Append(data, Delim)]
                   /\ sent' = [sent EXCEPT ![t] = Append(@, data)]
                   /\ UNCHANGED <<rel, tin, tout, closed>>
    /\ UNCHANGED <<rbuf, racc, rpc, rsince, recvd, raw, rfail, nRaw>>
    /\ UNCHANGED lvars

(* Read is called: p.reader.ReadBytes starts with nothing set aside *)
ReadCall(t) ==
    /\ rpc[t] = "idle"
    /\ rpc' = [rpc EXCEPT ![t] = "reading"]
    /\ racc' = [racc EXCEPT ![t] = <<>>]
    /\ rsince' = [rsince EXCEPT ![t] = closed[t]]
    /\ UNCHANGED <<rel, tin, tout, pipe, rbuf, last, closed, sent, recvd, stream, raw,
                   rfail, nSends, nRaw>>
    /\ UNCHANGED lvars

(* bytes.IndexByte(buf, delim), 1-based; 0 when the byte is not there *)
IndexByte(b, d) ==
    IF \E i \in 1..Len(b) : b[i] = d
      THEN CHOOSE i \in 1..Len(b) : b[i] = d /\ \A j \in 1..(i - 1) : b[j] # d
      ELSE 0

Min(a, b) == IF a < b THEN a ELSE b

(* Read returns (data, nil) *)
ReadReturn(t, data) ==
    /\ last' = [last EXCEPT ![t] = [op |-> "Read", err |-> NoErr, data |-> data,
                                    afterClose |-> rsince[t],
                                    err1 |-> NoErr, err2 |-> NoErr]]
    /\ recvd' = [recvd EXCEPT ![t] = Append(@, data)]
    /\ rpc' = [rpc EXCEPT ![t] = "idle"]
    /\ racc' = [racc EXCEPT ![t] = <<>>]
    /\ UNCHANGED <<rel, tin, tout, closed, rfail>>

(* Read returns (nil, err) after closing the transport; what ReadBytes    *)
(* had collected is dropped with it.                                      *)
ReadFail(t, err) ==
    /\ last' = [last EXCEPT ![t] = [op |-> "Read", err |-> err, data |-> <<>>,
                                    afterClose |-> rsince[t],
                                    err1 |-> NoErr, err2 |-> NoErr]]
    /\ DoClose(t)
    /\ rfail' = [rfail EXCEPT ![t] = TRUE]
    /\ rpc' = [rpc EXCEPT ![t] = "idle"]
    /\ racc' = [racc EXCEPT ![t] = <<>>]
    /\ rbuf' = [rbuf EXCEPT ![t] = <<>>]
    /\ UNCHANGED <<recvd, pipe>>

(* Mutant: at the end of the stream the undelimited tail is returned as a *)
(* message.                                                               *)
ReadStep_Tail(t) ==
    /\ rpc[t] = "reading"
    /\ LET i == IndexByte(rbuf[t], Delim) IN
         IF i > 0
           THEN /\ ReadReturn(t, racc[t] \o SubSeq(rbuf[t], 1, i - 1))
                /\ rbuf' = [rbuf EXCEPT ![t] = SubSeq(@, i + 1, Len(@))]
                /\ UNCHANGED pipe
         ELSE IF Len(rbuf[t]) >= ReaderSize
           THEN /\ racc' = [racc EXCEPT ![t] = @ \o rbuf[t]]
                /\ rbuf' = [rbuf EXCEPT ![t] = <<>>]
                /\ UNCHANGED <<rel, tin, tout, pipe, rpc, last, closed, recvd, rfail>>
         ELSE IF tin[t] = "closed"
           THEN ReadFail(t, ErrReadClosed)
         ELSE IF pipe[t] # <<>>
           THEN LET n == Min(Len(pipe[t]), ReaderSize - Len(rbuf[t])) IN
                /\ rbuf' = [rbuf EXCEPT ![t] = @ \o SubSeq(pipe[t], 1, n)]
                /\ pipe' = [pipe EXCEPT ![t] = SubSeq(@, n + 1, Len(@))]
                /\ UNCHANGED <<rel, tin, tout, racc, rpc, last, closed, recvd, rfail>>
         ELSE /\ WriterGone(t)
              /\ IF racc[t] \o rbuf[t] # <<>>
                   THEN /\ ReadReturn(t, racc[t] \o rbuf[t])
                        /\ rbuf' = [rbuf EXCEPT ![t] = <<>>]
                        /\ UNCHANGED pipe
                   ELSE ReadFail(t, EOF)
    /\ UNCHANGED <<rsince, sent, stream, raw, nSends, nRaw>>
    /\ UNCHANGED lvars

(* Mutant: the read goes on after p.in was closed. *)
ReadStep_IgnoreClosed(t) ==
    /\ rpc[t] = "reading"
    /\ LET i == IndexByte(rbuf[t], Delim) IN
         IF i > 0
           THEN /\ ReadReturn(t, racc[t] \o SubSeq(rbuf[t], 1, i - 1))
                /\ rbuf' = [rbuf EXCEPT ![t] = SubSeq(@, i + 1, Len(@))]
                /\ UNCHANGED pipe
         ELSE IF Len(rbuf[t]) >= ReaderSize
           THEN /\ racc' = [racc EXCEPT ![t] = @ \o rbuf[t]]
                /\ rbuf' = [rbuf EXCEPT ![t] = <<>>]
                /\ UNCHANGED <<rel, tin, tout, pipe, rpc, last, closed, recvd, rfail>>
         ELSE IF pipe[t] # <<>>
           THEN LET n == Min(Len(pipe[t]), ReaderSize - Len(rbuf[t])) IN
                /\ rbuf' = [rbuf EXCEPT ![t] = @ \o SubSeq(pipe[t], 1, n)]
                /\ pipe' = [pipe EXCEPT ![t] = SubSeq(@, n + 1, Len(@))]
                /\ UNCHANGED <<rel, tin, tout, racc, rpc, last, closed, recvd, rfail>>
         ELSE /\ WriterGone(t)
              /\ ReadFail(t, EOF)
    /\ UNCHANGED <<rsince, sent, stream, raw, nSends, nRaw>>
    /\ UNCHANGED lvars

(* One turn of the loop of bufio.Reader.ReadBytes inside Read:            *)
(*   the delimiter is in the buffer: the line up to it is handed out and  *)
(*     Read strips its last byte;                                         *)
(*   the buffer is full: its content is set aside and the buffer reused;  *)
(*   otherwise the buffer is filled by one read of p.in, which fails on a *)
(*     closed file, takes what the pipe holds (at most the free space),   *)
(*     ends with io.EOF when the pipe is empty and its write end closed,  *)
(*     and blocks otherwise. On an error Read closes the transport and    *)
(*     returns nil and the error.                                         *)
ReadStep(t) ==
    /\ rpc[t] = "reading"
    /\ LET i == IndexByte(rbuf[t], Delim) IN
         IF i > 0
           THEN /\ ReadReturn(t, racc[t] \o SubSeq(rbuf[t], 1, i - 1))
                /\ rbuf' = [rbuf EXCEPT ![t] = SubSeq(@, i + 1, Len(@))]
                /\ UNCHANGED pipe
         ELSE IF Len(rbuf[t]) >= ReaderSize
           THEN /\ racc' = [racc EXCEPT ![t] = @ \o rbuf[t]]
                /\ rbuf' = [rbuf EXCEPT ![t] = <<>>]
                /\ UNCHANGED <<rel, tin, tout, pipe, rpc, last, closed, recvd, rfail>>
         ELSE IF tin[t] = "closed"
           THEN ReadFail(t, ErrReadClosed)
         ELSE IF pipe[t] # <<>>
           THEN LET n == Min(Len(pipe[t]), ReaderSize - Len(rbuf[t])) IN
                /\ rbuf' = [rbuf EXCEPT ![t] = @ \o SubSeq(pipe[t], 1, n)]
                /\ pipe' = [pipe EXCEPT ![t] = SubSeq(@, n + 1, Len(@))]
                /\ UNCHANGED <<rel, tin, tout, racc, rpc, last, closed, recvd, rfail>>
         ELSE /\ WriterGone(t)
              /\ ReadFail(t, EOF)
    /\ UNCHANGED <<rsince, sent, stream, raw, nSends, nRaw>>
    /\ UNCHANGED lvars

(* Mutant: when p.in.Close() fails, Close returns without p.out.Close(). *)
Close_ShortCircuit(t) ==
    /\ \E ok1 \in OsClose(tin[t]), ok2 \in OsClose(tout[t]) :
         LET err1 == FileClose(tin[t], "|0", ok1)
             err2 == FileClose(tout[t], "|1", ok2)
         IN IF err1 # NoErr
              THEN /\ last' = [last EXCEPT ![t] = [op |-> "Close", err |-> err1, data |-> <<>>,
                                                   afterClose |-> closed[t],
                                                   err1 |-> err1, err2 |-> NoErr]]
                   /\ tin' = [tin EXCEPT ![t] = "closed"]
                   /\ closed' = [closed EXCEPT ![t] = TRUE]
                   /\ rel' = [rel EXCEPT ![t].in = @ + (IF tin[t] = "open" THEN 1 ELSE 0)]
                   /\ UNCHANGED tout
              ELSE /\ last' = [last EXCEPT ![t] = [op |-> "Close", err |-> CloseErr(err1, err2),
                                                   data |-> <<>>, afterClose |-> closed[t],
                                                   err1 |-> err1, err2 |-> err2]]
                   /\ DoClose(t)
    /\ UNCHANGED <<pipe, rbuf, racc, rpc, rsince, sent, recvd, stream, raw, rfail,
                   nSends, nRaw>>
    /\ UNCHANGED lvars

(* PipeWebSocket.Close, called by the owner: both files are closed, one   *)
(* after the other, and the first error of the two is returned.           *)
Close(t) ==
    /\ \E ok1 \in OsClose(tin[t]), ok2 \in OsClose(tout[t]) :
         LET err1 == FileClose(tin[t], "|0", ok1)
             err2 == FileClose(tout[t], "|1", ok2)
         IN last' = [last EXCEPT ![t] = [op |-> "Close", err |-> CloseErr(err1, err2),
                                         data |-> <<>>, afterClose |-> closed[t],
                                         err1 |-> err1, err2 |-> err2]]
    /\ DoClose(t)
    /\ UNCHANGED <<pipe, rbuf, racc, rpc, rsince, sent, recvd, stream, raw, rfail,
                   nSends, nRaw>>
    /\ UNCHANGED lvars

(* The holder of the write end of t's inbound pipe writes one byte to it  *)
(* directly (the browser's own writer, a test writing to the file).       *)
RawWrite(t, b) ==
    /\ nSends + nRaw < MaxWrites
    /\ tout[Peer(t)] = "open"
    /\ tin[t] = "open"
    /\ nRaw' = nRaw + 1
    /\ pipe' = [pipe EXCEPT ![t] = Append(@, b)]
    /\ stream' = [stream EXCEPT ![t] = Append(@, b)]
    /\ raw' = [raw EXCEPT ![t] = TRUE]
    /\ UNCHANGED <<rel, tin, tout, rbuf, racc, rpc, last, closed, rsince, sent, recvd,
                   rfail, nSends>>
    /\ UNCHANGED lvars

TNext ==
    \E t \in Transports :
        \/ \E data \in Payloads : Send(t, data)
        \/ ReadCall(t)
        \/ ReadStep(t)
        \/ Close(t)
        \/ \E b \in Byte : RawWrite(t, b)

(* ------------------------------------------------------- specifications *)

(* LaunchPipe calls on a Launcher made by NewPipeMode, on either revision *)
(* of LaunchPipe and either build target                                  *)
LaunchInit ==
    /\ src \in Sources
    /\ platform \in Platforms
    /\ NewLauncher
    /\ TInit

SpecLaunch == LaunchInit /\ [][LNext]_vars

(* the goroutine is scheduled; whether the child ever exits is up to it *)
SpecLaunchFair == SpecLaunch /\ \A c \in Callers : WF_vars(Watcher(c))

(* Send, Read and Close on two transports wired back to back *)
PipeInit ==
    /\ src = "part_000"
    /\ platform = "unix"
    /\ NewLauncher
    /\ TInit

SpecPipe == PipeInit /\ [][TNext]_vars

(* LaunchPipe has returned the client: its transport is p, and q's files  *)
(* are the child's descriptors                                            *)
Launched == \E c \in Callers : pc[c] = "done" /\ ret[c] = NoErr

(* the caller of LaunchPipe uses the transport of the client it got *)
WS_Send(data) == Launched /\ Send("p", data)

WS_ReadCall == Launched /\ ReadCall("p")

WS_ReadStep == Launched /\ ReadStep("p")

WS_Close == Launched /\ Close("p")

(* the child writes a byte to its descriptor 4 *)
Child_Write(b) == Launched /\ RawWrite("p", b)

SNext ==
    \/ LNext
    \/ \E data \in Payloads : WS_Send(data)
    \/ WS_ReadCall
    \/ WS_ReadStep
    \/ WS_Close
    \/ \E b \in Byte : Child_Write(b)

(* a launch and the use of the transport it returns, the child writing    *)
(* to its end and exiting when it likes                                   *)
SpecSession == LaunchInit /\ [][SNext]_vars

(* a Read in progress is a running goroutine and takes its next step     *)
(* when it can; so does the watcher                                       *)
SpecSessionFair ==
    /\ SpecSession
    /\ WF_vars(WS_ReadStep)
    /\ \A c \in Callers : WF_vars(Watcher(c))

(* =============================================================== claims *)

ZeroFree(d) == \A i \in 1..Len(d) : d[i] # Delim

IsPrefix(a, b) == Len(a) <= Len(b) /\ SubSeq(b, 1, Len(a)) = a

(* the complete frames of a byte string: the pieces that end with a zero  *)
(* byte, without it                                                       *)
RECURSIVE Frames(_)
Frames(b) ==
    IF \A i \in 1..Len(b) : b[i] # Delim THEN <<>>
    ELSE LET i == CHOOSE k \in 1..Len(b) : b[k] = Delim /\ \A j \in 1..(k - 1) : b[j] # Delim
         IN <<SubSeq(b, 1, i - 1)>> \o Frames(SubSeq(b, i + 1, Len(b)))

(* what a Read on t has not handed out yet *)
Unread(t) == racc[t] \o rbuf[t] \o pipe[t]

(* C1: when a pipe is written only by Send and every payload sent is free *)
(* of zero bytes, the payloads the peer's Reads return are the payloads   *)
(* sent, in order and byte for byte: always a prefix of them, and, while  *)
(* no Read has failed, together with the frames still unread exactly the  *)
(* payloads sent.                                                         *)
C1_RoundTrip ==
    \A t \in Transports :
        (~raw[t] /\ \A i \in 1..Len(sent[Peer(t)]) : ZeroFree(sent[Peer(t)][i]))
        => /\ IsPrefix(recvd[t], sent[Peer(t)])
           /\ ~rfail[t] => recvd[t] \o Frames(Unread(t)) = sent[Peer(t)]

C1_Witness ==
    \E t \in Transports :
        /\ ~raw[t]
        /\ recvd[t] = sent[Peer(t)]
        /\ Len(recvd[t]) = 2
        /\ recvd[t][1] # recvd[t][2]
        /\ \E i \in 1..2 : recvd[t][i] = <<>>
        /\ \A i \in 1..2 : ZeroFree(recvd[t][i])

(* C2: a Send or a Read called after the transport was closed returns an  *)
(* error.                                                                 *)
C2_ClosedSticky ==
    \A t \in Transports :
        (last[t].op \in {"Send", "Read"} /\ last[t].afterClose) => last[t].err # NoErr

(* C3: when a Send or a Read has returned an error, both files of the     *)
(* transport are closed and the error is the one of the write or the read *)
(* (never the one of the Close).                                          *)
C3_SelfClose ==
    \A t \in Transports :
        (last[t].op \in {"Send", "Read"} /\ last[t].err # NoErr)
        => /\ tin[t] = "closed"
           /\ tout[t] = "closed"
           /\ last[t].err \in (IF last[t].op = "Send"
                                 THEN {ErrWriteClosed, ErrWriteEPIPE}
                                 ELSE {ErrReadClosed, EOF})

C3_Witness ==
    \E t \in Transports :
        /\ last[t].op = "Send"
        /\ last[t].err = ErrWriteEPIPE
        /\ ~last[t].afterClose
        /\ tin[t] = "closed"
        /\ tout[t] = "closed"

(* C4: the messages the successful Reads have returned are the first      *)
(* complete frames of the inbound stream, in order, without the zero      *)
(* byte; a failed Read returns no bytes, and after it nothing of what was *)
(* read stays in the reader to be returned later.                         *)
C4_Framing ==
    \A t \in Transports :
        /\ IsPrefix(recvd[t], Frames(stream[t]))
        /\ (last[t].op = "Read" /\ last[t].err # NoErr) => last[t].data = <<>>
        /\ rfail[t] => rbuf[t] = <<>> /\ racc[t] = <<>>

C4_Witness ==
    \E t \in Transports :
        /\ last[t].op = "Read"
        /\ last[t].err = EOF
        /\ stream[t] # <<>>
        /\ stream[t][Len(stream[t])] # Delim
        /\ recvd[t] # <<>>
        /\ recvd[t] = Frames(stream[t])
        /\ pipe[t] = <<>>

Proceeded == {c \in Callers : pc[c] # "idle" /\ ret[c] # ErrAlreadyLaunched}

(* C5: at most one LaunchPipe call gets past the entry; a call that       *)
(* returned ErrAlreadyLaunched has created no pipe, started no process    *)
(* and no watcher and built no transport, and the recorded pid is 0 or    *)
(* the pid of the one process started.                                    *)
C5_LaunchAtMostOnce ==
    /\ Cardinality(Proceeded) <= 1
    /\ Cardinality({c \in Callers : proc[c].state # "none"}) <= 1
    /\ Cardinality({c \in Callers : watcher[c] # "none"}) <= 1
    /\ Cardinality({c \in Callers : \E e \in Endpoints : fd[c][e] # "none"}) <= 1
    /\ pid \in {0} \cup {proc[c].pid : c \in Proceeded}
    /\ \A c \in Callers :
         ret[c] = ErrAlreadyLaunched
         => /\ \A e \in Endpoints : fd[c][e] = "none"
            /\ proc[c] = NoProc
            /\ watcher[c] = "none"
            /\ pipeWS[c] = NoWS

C5_Witness ==
    \E c, d \in Callers :
        /\ ret[c] = NoErr
        /\ pid = proc[c].pid
        /\ ret[d] = ErrAlreadyLaunched

(* C6: a LaunchPipe call that has returned an error holds no open         *)
(* endpoint.                                                              *)
C6_NoLeakOnError ==
    \A c \in Callers :
        (pc[c] = "done" /\ ret[c] # NoErr) => \A e \in Endpoints : fd[c][e] # "open"

C6_Witness ==
    \E c \in Callers :
        /\ ret[c] = ErrStart
        /\ \A e \in Endpoints : fd[c][e] = "closed"

(* C7: a call that returned with pair 1 created and pair 2 not created    *)
(* has closed both ends of pair 1, has not run the binder nor started a   *)
(* process, and returns "failed to create read pipe" wrapping the error   *)
(* of the second os.Pipe.                                                 *)
C7_Pair2Failure ==
    \A c \in Callers :
        (pc[c] = "done" /\ fd[c]["chromeReadPipe"] # "none" /\ fd[c]["ourReadPipe"] = "none")
        => /\ fd[c]["chromeReadPipe"] = "closed"
           /\ fd[c]["ourWritePipe"] = "closed"
           /\ fd[c]["chromeWritePipe"] = "none"
           /\ configureCmd[c] = <<>>
           /\ flags = NewPipeMode
           /\ cmd[c] = NoCmd
           /\ proc[c] = NoProc
           /\ ret[c] = Wrap("failed to create read pipe", ErrOsPipe2)
           /\ ret[c] # ErrWritePipe

C7_Witness ==
    \E c \in Callers :
        /\ pc[c] = "done"
        /\ ret[c] = ErrReadPipe
        /\ fd[c]["chromeReadPipe"] = "closed"
        /\ fd[c]["ourWritePipe"] = "closed"

C9_FormatAfterBind ==
    \A c \in Callers :
        /\ args[c] # NoArgs => configureCmd[c] # <<>>
        /\ proc[c].state # "none" => flags \subseteq proc[c].args

(* C10: l.exit is closed at most once and only when a child has exited,   *)
(* and once a child of a successful LaunchPipe has exited it is closed.   *)
C10_ExitOnce ==
    /\ [](exitCloses <= 1)
    /\ [](exitCloses >= 1 => \E c \in Callers : proc[c].state = "exited")
    /\ \A c \in Callers :
         (ret[c] = NoErr /\ proc[c].state = "exited") ~> (exitCloses = 1)

C10_Witness ==
    \E c \in Callers :
        /\ ret[c] = NoErr
        /\ proc[c].state = "exited"
        /\ watcher[c] = "done"
        /\ exitCloses = 1

(* C18: the launched flag never goes back; it is set as soon as a call   *)
(* has entered LaunchPipe, whatever that call returns; a call entering    *)
(* with the flag set returns ErrAlreadyLaunched at once and starts no     *)
(* process.                                                               *)
C18_LaunchedIrreversible ==
    /\ [](\A c \in Callers : pc[c] # "idle" => isLaunched)
    /\ [][isLaunched => isLaunched']_vars
    /\ [][\A c \in Callers :
            (isLaunched /\ pc[c] = "idle" /\ pc'[c] # "idle")
            => /\ pc'[c] = "done"
               /\ ret'[c] = ErrAlreadyLaunched
               /\ proc' = proc]_vars

C18_Witness ==
    \E c, d \in Callers :
        /\ ret[c] \in {ErrGetBin, ErrWritePipe, ErrReadPipe, ErrWriteHandle, ErrStart}
        /\ ret[d] = ErrAlreadyLaunched
        /\ \A e \in Callers : proc[e] = NoProc

(* C19: a call that returned an error has started no process, no watcher  *)
(* and built no transport; the pid recorded is that of a process started, *)
(* a watcher exists only for a process started, and l.exit is closed only *)
(* by the watcher of a process that exited.                               *)
C19_ErrorLeavesNothing ==
    /\ \A c \in Callers :
         /\ (pc[c] = "done" /\ ret[c] # NoErr)
            => /\ proc[c] = NoProc
               /\ watcher[c] = "none"
               /\ pipeWS[c] = NoWS
         /\ watcher[c] # "none" => proc[c].state # "none"
    /\ pid # 0 => \E c \in Callers : proc[c].state # "none" /\ pid = proc[c].pid
    /\ exitCloses >= 1 => \E c \in Callers : watcher[c] = "done" /\ proc[c].state = "exited"
    /\ (\A c \in Callers : pc[c] = "done" /\ ret[c] # NoErr) => pid = 0 /\ exitCloses = 0

C19_Witness ==
    /\ \A c \in Callers : pc[c] = "done" /\ ret[c] # NoErr
    /\ \E c \in Callers : ret[c] = ErrStart
    /\ pid = 0
    /\ exitCloses = 0

(* C14: when preparePipeConfig has returned, the four endpoints are as    *)
(* open as before the call, on success and on failure; a failure happens  *)
(* only on windows, is the wrapped error of the handle marking, comes     *)
(* with no configurator and sets no flag.                                 *)
C14_BinderClosesNothing ==
    \A c \in Callers :
        pc[c] = "bindCheck"
        => /\ \A e \in Endpoints : fd[c][e] = "open"
           /\ bindErr[c] = NoErr => configureCmd[c] # <<>>
           /\ bindErr[c] # NoErr
              => /\ platform = "windows"
                 /\ bindErr[c] \in {Wrap("failed to make read handle inheritable", ErrSetHandle),
                                    Wrap("failed to make write handle inheritable", ErrSetHandle)}
                 /\ configureCmd[c] = <<>>
                 /\ flags = NewPipeMode

C14_Witness ==
    \E c \in Callers :
        /\ pc[c] = "bindCheck"
        /\ bindErr[c] = ErrWriteHandle
        /\ \A e \in Endpoints : fd[c][e] = "open"

(* descriptor n of the child: cmd.ExtraFiles[i] becomes descriptor 3 + i *)
Descriptor(c, n) == proc[c].inherited.ExtraFiles[n - 2]

(* C15: on unix a started child has exactly two extra descriptors:        *)
(* 3 is the read end of the pipe the transport's out writes to, 4 is the  *)
(* write end of the pipe the transport's in reads from; the binder has    *)
(* added no flag.                                                         *)
C15_DescriptorOrder ==
    \A c \in Callers :
        (platform = "unix" /\ proc[c].state # "none")
        => /\ Len(proc[c].inherited.ExtraFiles) = 2
           /\ Descriptor(c, 3) = Pair1.r
           /\ Descriptor(c, 4) = Pair2.w
           /\ ret[c] = NoErr => pipeWS[c].out = Pair1.w /\ pipeWS[c].in = Pair2.r
           /\ flags = NewPipeMode
           /\ proc[c].args = NewPipeMode

C15_Witness ==
    \E c \in Callers :
        /\ platform = "unix"
        /\ src = "part_000"
        /\ ret[c] = NoErr
        /\ proc[c].state = "running"
        /\ proc[c].inherited.ExtraFiles = <<"chromeReadPipe", "chromeWritePipe">>

(* C12: a Close has called Close on both files, whatever the first call  *)
(* returned: both are closed after it, and it returns the error of        *)
(* p.in.Close() when that is not nil, else the one of p.out.Close(), nil  *)
(* when both are nil.                                                     *)
C12_CloseBoth ==
    \A t \in Transports :
        last[t].op = "Close"
        => /\ tin[t] = "closed"
           /\ tout[t] = "closed"
           /\ last[t].err1 # NoErr => last[t].err = last[t].err1
           /\ last[t].err1 = NoErr => last[t].err = last[t].err2
           /\ (last[t].err1 = NoErr /\ last[t].err2 = NoErr) => last[t].err = NoErr
           /\ last[t].err1 \in {NoErr, ErrClose("|0", ErrClosed), ErrClose("|0", ErrIO)}
           /\ last[t].err2 \in {NoErr, ErrClose("|1", ErrClosed), ErrClose("|1", ErrIO)}

(* the first close failed on an open file, the second one succeeded *)
C12_Witness ==
    \E t \in Transports :
        /\ last[t].op = "Close"
        /\ ~last[t].afterClose
        /\ last[t].err1 = ErrClose("|0", ErrIO)
        /\ last[t].err2 = NoErr
        /\ last[t].err = ErrClose("|0", ErrIO)
        /\ tout[t] = "closed"
        /\ rel[t].out = 1

(* C13: whatever Close calls, failed Sends and failed Reads there were,  *)
(* the descriptor of each file is released at most once, exactly once as  *)
(* soon as the transport is closed, and then neither file is open; a      *)
(* Close on a closed transport returns the "already closed" error of      *)
(* p.in.                                                                  *)
C13_ReleasedOnce ==
    \A t \in Transports :
        /\ rel[t].in <= 1
        /\ rel[t].out <= 1
        /\ closed[t] => /\ rel[t].in = 1
                        /\ rel[t].out = 1
                        /\ tin[t] = "closed"
                        /\ tout[t] = "closed"
        /\ (last[t].op = "Close" /\ last[t].afterClose)
           => last[t].err = ErrClose("|0", ErrClosed)

(* a Close after a failed Read *)
C13_Witness ==
    \E t \in Transports :
        /\ rfail[t]
        /\ last[t].op = "Close"
        /\ last[t].afterClose
        /\ last[t].err # NoErr
        /\ rel[t] = [in |-> 1, out |-> 1]

(* the pieces of a payload between its zero bytes: one more than it has  *)
(* zero bytes                                                             *)
RECURSIVE Split(_)
Split(d) ==
    IF ZeroFree(d) THEN <<d>>
    ELSE LET i == CHOOSE k \in 1..Len(d) : d[k] = Delim /\ \A j \in 1..(k - 1) : d[j] # Delim
         IN <<SubSeq(d, 1, i - 1)>> \o Split(SubSeq(d, i + 1, Len(d)))

RECURSIVE SplitAll(_)
SplitAll(ds) == IF ds = <<>> THEN <<>> ELSE Split(Head(ds)) \o SplitAll(Tail(ds))

Zeros(d) == Cardinality({i \in 1..Len(d) : d[i] = Delim})

(* C20: when a pipe is written only by Send, every payload sent, with or  *)
(* without zero bytes, reaches the peer's Reads as its pieces between the *)
(* zero bytes, k + 1 messages for k zero bytes, in order; once all is     *)
(* read, what was received is what was sent exactly when no payload sent  *)
(* has a zero byte.                                                       *)
C20_SplitAtZero ==
    \A t \in Transports :
        ~raw[t]
        => LET out == sent[Peer(t)] IN
           /\ \A i \in 1..Len(out) : Len(Split(out[i])) = Zeros(out[i]) + 1
           /\ IsPrefix(recvd[t], SplitAll(out))
           /\ ~rfail[t] => recvd[t] \o Frames(Unread(t)) = SplitAll(out)
           /\ (~rfail[t] /\ Unread(t) = <<>>)
              => (recvd[t] = out <=> \A i \in 1..Len(out) : ZeroFree(out[i]))

C20_Witness ==
    \E t \in Transports :
        /\ ~raw[t]
        /\ sent[Peer(t)] = <<<<2, 0, 1>>>>
        /\ recvd[t] = <<<<2>>, <<1>>>>
        /\ Unread(t) = <<>>

(* C17 as claimed: no Send changes the inbound file or the reader of its  *)
(* transport, and no step of a Read changes the outbound file.            *)
C17_Independent ==
    [][\A t \in Transports :
         /\ (\E d \in Payloads : Send(t, d))
            => /\ tin'[t] = tin[t]
               /\ rbuf'[t] = rbuf[t]
               /\ racc'[t] = racc[t]
         /\ ReadStep(t) => tout'[t] = tout[t]]_vars

(* C17, amended: a Send never changes the reader, the Read in progress or *)
(* the inbound pipe, and one that returns nil changes neither file; a     *)
(* step of a Read never changes the outbound pipe, and one that does not  *)
(* return an error changes neither the outbound file nor the inbound one; *)
(* a Send or a Read that returns an error has closed both files.          *)
C17_IndependentUnlessFailed ==
    [][\A t \in Transports :
         /\ (\E d \in Payloads : Send(t, d))
            => /\ rbuf'[t] = rbuf[t]
               /\ racc'[t] = racc[t]
               /\ rpc'[t] = rpc[t]
               /\ pipe'[t] = pipe[t]
               /\ IF last'[t].err = NoErr
                    THEN tin'[t] = tin[t] /\ tout'[t] = tout[t]
                    ELSE tin'[t] = "closed" /\ tout'[t] = "closed"
         /\ ReadStep(t)
            => /\ pipe'[Peer(t)] = pipe[Peer(t)]
               /\ sent' = sent
               /\ IF rpc'[t] = "idle" /\ last'[t].err # NoErr
                    THEN tin'[t] = "closed" /\ tout'[t] = "closed"
                    ELSE tin'[t] = tin[t] /\ tout'[t] = tout[t]]_vars

(* a Send failed while a Read called before it was in progress *)
C17_Witness ==
    \E t \in Transports :
        /\ rpc[t] = "reading"
        /\ ~rsince[t]
        /\ last[t].op = "Send"
        /\ last[t].err = ErrWriteEPIPE
        /\ tin[t] = "closed"
        /\ pipe[t] # <<>>

(* a Read is in progress on t, p.in is closed and the reader holds no    *)
(* complete message                                                       *)
BlockedClosed(t) ==
    /\ rpc[t] = "reading"
    /\ tin[t] = "closed"
    /\ IndexByte(rbuf[t], Delim) = 0

(* C16: a Read that has no complete message in its buffer when p.in is    *)
(* closed takes in nothing more: it stays without a complete message      *)
(* until it returns, it does return, and what it returns is an error and  *)
(* no message.                                                            *)
C16_CloseUnblocksRead ==
    /\ [][\A t \in Transports :
            BlockedClosed(t)
            => \/ BlockedClosed(t)' /\ pipe'[t] = pipe[t]
               \/ /\ rpc'[t] = "idle"
                  /\ last'[t].op = "Read"
                  /\ last'[t].err # NoErr
                  /\ last'[t].data = <<>>
                  /\ recvd'[t] = recvd[t]]_vars
    /\ \A t \in Transports : BlockedClosed(t) ~> (rpc[t] = "idle" /\ rfail[t])

(* a Read blocked on a pipe nothing was ever written to, ended by a Close *)
C16_Witness ==
    \E t \in Transports :
        /\ last[t].op = "Read"
        /\ last[t].err = ErrReadClosed
        /\ ~last[t].afterClose
        /\ stream[t] = <<>>
        /\ nSends = 0
        /\ tout[Peer(t)] = "open"

(* the child has exited and the Read in progress on the transport has no *)
(* complete message to return                                            *)
BlockedAtExit ==
    /\ \E c \in Callers : proc[c].state = "exited"
    /\ rpc["p"] = "reading"
    /\ Frames(Unread("p")) = <<>>

(* C11: once LaunchPipe has returned the client, the launcher holds no   *)
(* open file on the write end of the pipe the transport reads from; a     *)
(* Read that is blocked when the child has exited gets no message any     *)
(* more and returns, with an error; the transport's two files are then    *)
(* closed, and l.exit is closed.                                          *)
C11_ExitUnblocksRead ==
    /\ [](Launched => ~HeldByLauncher(Pair2.w))
    /\ [][BlockedAtExit
          => \/ BlockedAtExit'
             \/ /\ rpc'["p"] = "idle"
                /\ last'["p"].op = "Read"
                /\ last'["p"].err \in {EOF, ErrReadClosed}
                /\ recvd'["p"] = recvd["p"]
                /\ tin'["p"] = "closed"
                /\ tout'["p"] = "closed"]_vars
    /\ BlockedAtExit ~> (/\ rpc["p"] = "idle"
                         /\ rfail["p"]
                         /\ tin["p"] = "closed"
                         /\ tout["p"] = "closed"
                         /\ exitCloses = 1)

(* the Read ended with the end of the stream, and the watcher has fired *)
C11_Witness ==
    /\ \E c \in Callers : proc[c].state = "exited" /\ ret[c] = NoErr
    /\ last["p"].op = "Read"
    /\ last["p"].err = EOF
    /\ ~last["p"].afterClose
    /\ tin["p"] = "closed"
    /\ tout["p"] = "closed"
    /\ exitCloses = 1

====
